---------------------------- MODULE Spec2Model ----------------------------
(***************************************************************************)
(* Model of the level-filtered logger of logger_stdout.go: the format      *)
(* pipeline (DefaultLogFormatFunc), the level filter and the two delivery  *)
(* strategies of Logger.log / Logger.Start / Logger.flush.                 *)
(*                                                                         *)
(* A Go string is a sequence of one-character strings; an escape sequence  *)
(* or a separator the code writes with one WriteString call is kept as one *)
(* element.  A slice is a header [arr, len, cap] into the heap of backing  *)
(* arrays, as in the Go runtime, so that two slices can share an array.    *)
(***************************************************************************)
EXTENDS Integers, Sequences, FiniteSets, Bags, TLC

(***************************************************************************)
(* Bounds of the model.                                                    *)
(***************************************************************************)
\* emission calls in one behaviour
MaxEmits == 2
\* flush goroutines alive at the same time
MaxFlushes == 2
\* largest queue capacity configured before Start (SetQueueSize)
MaxQueueSize == 2
\* cache capacity configured before Start (SetCacheCap)
CacheCap == 1
\* fields of a sequence-of-fields payload handed to the format pipeline
MaxFields == 2
\* leading plain characters of a field handed to the format pipeline
MaxBodyLen == 1

(***************************************************************************)
(* Constants of logger_stdout.go.                                          *)
(***************************************************************************)
DEBUG == 0
INFO == 1
NOTICE == 2
WARN == 3
ERROR == 4
CRITICAL == 5
FATAL == 6
LogTypes == DEBUG..FATAL

\* the status constants continue the const block of the log types, so iota is 7
\* at statusInit; a new Logger's status is the zero value, none of the three
statusInit == 7
statusDoing == 8
statusDone == 9

\* the escape sequences written by DefaultLogFormatFunc
ESC == "\\033["
RESET == "\\033[0m"
NL == "\\n"
VERB == "%s"

dataColor(c) ==
    CASE c = "r" -> "41;97"
      [] c = "g" -> "42;97"
      [] c = "y" -> "43;97"
      [] c = "b" -> "44;97"
      [] OTHER -> ""

logTypesColors ==
    <<"45;97", "42;97", "43;97", "43;97", "41;97", "41;97", "41;97">>

typeNames ==
    << <<"D","E","B","U","G">>, <<"I","N","F","O">>,
       <<"N","O","T","I","C","E">>, <<"W","A","R","N">>,
       <<"E","R","R","O","R">>, <<"C","R","I","T","I","C","A","L">>,
       <<"F","A","T","A","L">> >>

Max(S) == CHOOSE x \in S : \A y \in S : y <= x

Repeat(s, n) == [i \in 1..n |-> s]

\* the level names, each padded with spaces to the longest name's length
logTypeStrings ==
    LET maxTypeLen == Max({Len(typeNames[i]) : i \in 1..Len(typeNames)})
    IN  [i \in 1..Len(typeNames) |->
            IF Len(typeNames[i]) < maxTypeLen
            THEN typeNames[i] \o Repeat(" ", maxTypeLen - Len(typeNames[i]))
            ELSE typeNames[i]]

GetLogTypeString(t) == logTypeStrings[t + 1]

\* time.Now().Format(layout), padded: opaque to the model
formatTime == <<"TIME">>

(***************************************************************************)
(* Payloads (the interface{} argument of the emission API).                *)
(***************************************************************************)
TextPayload(s) == [kind |-> "string", str |-> s]
FieldsPayload(fs) == [kind |-> "slice", sli |-> fs]
OtherPayload == [kind |-> "other"]

\* a color test that forgets the letter y
HasColorMarkNoY(f) ==
    /\ Len(f) >= 2
    /\ LET color == SubSeq(f, Len(f) - 1, Len(f))
       IN  /\ color[1] = "-"
           /\ (color[2] = "g" \/ color[2] = "b" \/ color[2] = "r")

\* the color test of DefaultLogFormatFunc on the last two bytes of a field
HasColorMark(f) ==
    /\ Len(f) >= 2
    /\ LET color == SubSeq(f, Len(f) - 1, Len(f))
       IN  /\ color[1] = "-"
           /\ (color[2] = "g" \/ color[2] = "b" \/ color[2] = "r" \/ color[2] = "y")

\* the piece of the template written for field f
FieldFormat(f) ==
    IF HasColorMark(f)
    THEN <<ESC, dataColor(f[Len(f)]), "m", VERB, RESET, " | ">>
    ELSE <<VERB, " | ">>

\* the value tj stored for field f
FieldValue(f) ==
    IF HasColorMark(f) THEN SubSeq(f, 1, Len(f) - 2) ELSE f

RECURSIVE FieldsFormat(_)
FieldsFormat(fs) ==
    IF fs = <<>> THEN <<>>
    ELSE FieldFormat(Head(fs)) \o FieldsFormat(Tail(fs))

\* DefaultLogFormatFunc: <<format, values, isLog>>
DefaultLogFormatFunc(logType, i) ==
    IF i.kind = "slice"
    THEN << <<"[", ESC, logTypesColors[logType + 1], "m", VERB, RESET, "] ", VERB, " | ">>
              \o FieldsFormat(i.sli) \o <<NL>>,
            <<logTypeStrings[logType + 1], formatTime>>
              \o [j \in 1..Len(i.sli) |-> FieldValue(i.sli[j])],
            TRUE >>
    ELSE IF i.kind = "string"
    THEN << <<"[", ESC, logTypesColors[logType + 1], "m", VERB, RESET, "] ", VERB, " | ",
              VERB, " | ", NL>>,
            <<logTypeStrings[logType + 1], formatTime, i.str>>,
            TRUE >>
    ELSE << <<>>, <<>>, TRUE >>

\* fmt.Sprintf for templates whose only verb is %s
RECURSIVE Sprintf(_, _)
Sprintf(format, data) ==
    IF format = <<>>
    THEN IF data = <<>> THEN <<>> ELSE <<"%!(EXTRA)">>
    ELSE IF Head(format) = VERB
         THEN IF data = <<>>
              THEN <<"%!s(MISSING)">> \o Sprintf(Tail(format), data)
              ELSE Head(data) \o Sprintf(Tail(format), Tail(data))
         ELSE <<Head(format)>> \o Sprintf(Tail(format), data)


(***************************************************************************)
(* The state of one Logger and of the goroutines that use it.              *)
(*                                                                         *)
(* log holds l.mu from its first statement to its return, so at most one   *)
(* emission call is past l.mu.Lock() at any time, whatever the number of   *)
(* calling goroutines: call is that one call.  A caller waiting in Lock()  *)
(* has no state of its own.  The flush goroutines alive form a bag: they   *)
(* differ only in where they are and in what they hold.                    *)
(***************************************************************************)
VARIABLES
    cacheUse,    \* l.cache.use
    queueSize,   \* l.queueSize
    logLevel,    \* l.logLevel
    mu,          \* l.mu: Free or the call that holds it
    cacheMutex,  \* l.cache.mutex: TRUE when held
    status,      \* l.status
    queue,       \* l.queue: [made |-> FALSE] is the nil channel
    cacheData,   \* l.cache.data: a slice header [arr, len, cap]
    heap,        \* the backing arrays of l.cache.data, by allocation order
    started,     \* Start has run
    call,        \* the log call past l.mu.Lock(): [pc, msg, hdr]
    drain,       \* the drain worker of Start: [pc, msg]
    fl,          \* the flush goroutines alive: a bag of [pc, cache, buf, locked]
    aborted,     \* the process has died of a panic
    sink,        \* l.out: the payloads written, in order
    accepted,    \* the strings appended to the cache or pushed to the queue, in order
    rejected,    \* the texts of the emission calls the level filter returned from
    stored,      \* a log call has stored into l.cache.data since the last swap
    nEmits,      \* emission calls made
    levelCall,   \* the SetLogLevel or GetLogLevel call waiting in l.mu.Lock(), if followed
    fmtIn,       \* format pipeline alone: the call's arguments
    fmtOut       \* format pipeline alone: [done, isLog, str], the veto and the string

vars == <<cacheUse, queueSize, logLevel, mu, cacheMutex, status, queue, cacheData,
          heap, started, call, drain, fl, aborted, sink, accepted,
          rejected, stored, nEmits, levelCall, fmtIn, fmtOut>>

config == <<cacheUse, queueSize>>
fmtVars == <<fmtIn, fmtOut>>

\* the levels the callers emit at and the thresholds SetLogLevel is called with
EmitLevels == {INFO, WARN}
SetLevels == {DEBUG, WARN}

\* the text of the n-th emission call
Digit(n) == <<"1", "2", "3", "4", "5", "6", "7", "8", "9">>[n]

\* the payloads the n-th emission call may pass
PayloadsOf(n) == { TextPayload(<<Digit(n)>>), OtherPayload }

\* the holders of l.mu
Free == <<>>
ByLog == <<"log">>

NoHeader == [arr |-> 0, len |-> 0, cap |-> 0]
NoCall == [pc |-> "idle", msg |-> <<>>, hdr |-> NoHeader]
NewFlush == [pc |-> "start", cache |-> NoHeader, buf |-> <<>>, locked |-> FALSE]

\* how many flush goroutines are alive
NumFlushes == BagCardinality(fl)

\* flush goroutine r moves on as r2, or ends
Moved(r, r2) == (fl (-) SetToBag({r})) (+) SetToBag({r2})
Ended(r) == fl (-) SetToBag({r})

\* make([]string, 0, cacheCap): a zeroed array of cap strings
NewArray(cap) == [k \in 1..cap |-> <<>>]

\* strings.Join(a, "")
RECURSIVE Join(_)
Join(a) == IF a = <<>> THEN <<>> ELSE Head(a) \o Join(Tail(a))

\* the elements a slice header denotes
Elems(h) == SubSeq(heap[h.arr], 1, h.len)

\* the format pipeline has not been run alone
NotFormatted == [done |-> FALSE, isLog |-> FALSE, str |-> <<>>]

\* NewLogger, after the configuration calls made before Start (SetCacheSwitch,
\* SetQueueSize, SetCacheCap); the queue size is read only with caching disabled
Init ==
    /\ cacheUse \in BOOLEAN
    /\ queueSize \in IF cacheUse THEN {MaxQueueSize} ELSE 1..MaxQueueSize
    /\ logLevel = DEBUG
    /\ mu = Free
    /\ cacheMutex = FALSE
    /\ status = 0
    /\ queue = [made |-> FALSE, buf |-> <<>>]
    /\ cacheData = [arr |-> 1, len |-> 0, cap |-> CacheCap]
    /\ heap = <<NewArray(CacheCap)>>
    /\ started = FALSE
    /\ call = NoCall
    /\ drain = [pc |-> "off", msg |-> <<>>]
    /\ fl = EmptyBag
    /\ aborted = FALSE
    /\ sink = <<>>
    /\ accepted = <<>>
    /\ rejected = {}
    /\ stored = FALSE
    /\ nEmits = 0
    /\ levelCall = "idle"
    /\ fmtIn = [logType |-> DEBUG, i |-> OtherPayload]
    /\ fmtOut = NotFormatted

(***************************************************************************)
(* Logger.SetLogLevel                                                      *)
(***************************************************************************)
SetLogLevel(logType) ==
    /\ ~aborted
    /\ mu = Free
    /\ logLevel # logType
    /\ logLevel' = logType
    /\ UNCHANGED <<config, levelCall, stored, mu, cacheMutex, status, queue, cacheData, heap,
                   started, call, drain, fl, aborted, sink, accepted, rejected,
                   nEmits, fmtVars>>

(***************************************************************************)
(* Logger.Start, called once: under l.mu, the queue and its drain worker,  *)
(* or the ticker of the flush scheduler.                                   *)
(***************************************************************************)
Start ==
    /\ ~aborted
    /\ ~started
    /\ mu = Free
    /\ started' = TRUE
    /\ IF ~cacheUse
       THEN /\ queue' = [made |-> TRUE, buf |-> <<>>]
            /\ drain' = [pc |-> "recv", msg |-> <<>>]
       ELSE UNCHANGED <<queue, drain>>
    /\ UNCHANGED <<config, levelCall, stored, logLevel, mu, cacheMutex, status, cacheData, heap,
                   call, fl, aborted, sink, accepted, rejected,
                   nEmits, fmtVars>>

\* a Start that creates the ticker whatever the cache switch says
TimerOnAlways == started

\* the ticker of Start is running
TimerOn == cacheUse /\ started

(***************************************************************************)
(* Logger.log                                                              *)
(***************************************************************************)
\* the text an emission call carries, if any
TextOf(i) == IF i.kind = "string" THEN {i.str[1]} ELSE {}

\* the level filter: TRUE when the call returns without emitting
Filtered(threshold, logType) == threshold > logType

\* l.logFormatFunc, which is DefaultLogFormatFunc unless replaced
logFormatFunc(logType, i) == DefaultLogFormatFunc(logType, i)

\* Debug, Info, ..., Fatal: log from l.mu.Lock() to the choice of the delivery
\* strategy; a call the filter or the format pipeline stops returns at once
LogCall(logType, i) ==
    /\ ~aborted
    /\ nEmits < MaxEmits
    /\ mu = Free
    /\ nEmits' = nEmits + 1
    /\ LET r == logFormatFunc(logType, i)
       IN  IF Filtered(logLevel, logType)
           THEN /\ rejected' = rejected \cup TextOf(i)
                /\ UNCHANGED <<call, mu>>
           ELSE IF ~r[3]
           THEN UNCHANGED <<call, rejected, mu>>
           ELSE /\ call' = [pc |-> IF cacheUse THEN "append" ELSE "send",
                            msg |-> Sprintf(r[1], r[2]), hdr |-> NoHeader]
                /\ mu' = ByLog
                /\ UNCHANGED rejected
    /\ UNCHANGED <<config, levelCall, stored, logLevel, cacheMutex, status, queue, cacheData, heap,
                   started, drain, fl, aborted, sink, accepted, fmtVars>>

\* append(l.cache.data, msg): the read of the slice header
LogAppendRead ==
    /\ ~aborted
    /\ call.pc = "append"
    /\ call' = [call EXCEPT !.pc = "store", !.hdr = cacheData]
    /\ UNCHANGED <<config, levelCall, stored, logLevel, mu, cacheMutex, status, queue, cacheData, heap,
                   started, drain, fl, aborted, sink, accepted, rejected,
                   nEmits, fmtVars>>

\* the array and header append(h, msg) yields: in place while len < cap, else in a
\* new array of twice the capacity
Appended(h, msg) ==
    IF h.len < h.cap
    THEN [heap |-> [heap EXCEPT ![h.arr][h.len + 1] = msg],
          hdr |-> [h EXCEPT !.len = h.len + 1]]
    ELSE [heap |-> Append(heap, [k \in 1..(2 * h.cap) |->
                                   IF k <= h.len THEN heap[h.arr][k]
                                   ELSE IF k = h.len + 1 THEN msg ELSE <<>>]),
          hdr |-> [arr |-> Len(heap) + 1, len |-> h.len + 1, cap |-> 2 * h.cap]]

\* l.cache.data = append(...): the element and the header are stored, log returns
LogAppendStore ==
    /\ ~aborted
    /\ call.pc = "store"
    /\ LET a == Appended(call.hdr, call.msg)
       IN  /\ heap' = a.heap
           /\ cacheData' = a.hdr
    /\ accepted' = Append(accepted, call.msg)
    /\ mu' = Free
    /\ stored' = TRUE
    /\ call' = NoCall
    /\ UNCHANGED <<config, levelCall, logLevel, cacheMutex, status, queue,
                   started, drain, fl, aborted, sink, rejected,
                   nEmits, fmtVars>>

\* a channel that never makes the sender wait
CanSendUnbounded == queue.made

\* the channel accepts a send: it is made and not full
CanSend == queue.made /\ Len(queue.buf) < queueSize

\* l.queue <- msg, then log returns
LogSend ==
    /\ ~aborted
    /\ call.pc = "send"
    /\ CanSend
    /\ queue' = [queue EXCEPT !.buf = Append(@, call.msg)]
    /\ accepted' = Append(accepted, call.msg)
    /\ mu' = Free
    /\ call' = NoCall
    /\ UNCHANGED <<config, levelCall, stored, logLevel, cacheMutex, status, cacheData, heap,
                   started, drain, fl, aborted, sink, rejected,
                   nEmits, fmtVars>>

(***************************************************************************)
(* The sink: a write attempt begins (the goroutine is inside               *)
(* io.WriteString) and later ends, done or with an error.                  *)
(***************************************************************************)
WriteResults == BOOLEAN

\* where a writer goes after attempt n ended with ok: on, to the retry, or panic
AfterWrite(n, ok) ==
    IF ok THEN "next" ELSE IF n = 1 THEN "write2" ELSE "panic"

AttemptAt(pc) == IF pc = "writing1" THEN 1 ELSE 2

(***************************************************************************)
(* The drain worker of Start (caching disabled).                           *)
(***************************************************************************)
\* a worker that takes the newest entry instead of the oldest
NextOfNewest(buf) == buf[Len(buf)]

\* the entry the worker takes from the channel
NextOf(buf) == Head(buf)

\* a worker that takes l.mu around its receive
DrainReadyUnderMu == queue.made /\ queue.buf # <<>> /\ mu = Free

\* case msg, ok := <-l.queue is ready: the worker takes no lock
DrainReady == queue.made /\ queue.buf # <<>>

\* msg, ok := <-l.queue; the worker enters io.WriteString(l.out, msg)
DrainRecv ==
    /\ ~aborted
    /\ drain.pc = "recv"
    /\ DrainReady
    /\ drain' = [pc |-> "writing1", msg |-> NextOf(queue.buf)]
    /\ queue' = [queue EXCEPT !.buf = Tail(@)]
    /\ UNCHANGED <<config, levelCall, stored, logLevel, mu, cacheMutex, status, cacheData, heap,
                   started, call, fl, aborted, sink, accepted, rejected,
                   nEmits, fmtVars>>

\* the retry: the worker enters io.WriteString(l.out, msg) again
DrainRetry ==
    /\ ~aborted
    /\ drain.pc = "write2"
    /\ drain' = [drain EXCEPT !.pc = "writing2"]
    /\ UNCHANGED <<config, levelCall, stored, logLevel, mu, cacheMutex, status, queue, cacheData, heap,
                   started, call, fl, aborted, sink, accepted, rejected,
                   nEmits, fmtVars>>

\* io.WriteString returns to the worker
DrainWriteEnd(ok) ==
    /\ ~aborted
    /\ drain.pc \in {"writing1", "writing2"}
    /\ LET to == AfterWrite(AttemptAt(drain.pc), ok)
       IN  /\ sink' = IF ok THEN Append(sink, drain.msg) ELSE sink
           /\ drain' = IF to = "next" THEN [pc |-> "recv", msg |-> <<>>]
                       ELSE [drain EXCEPT !.pc = to]
           /\ aborted' = (to = "panic")
    /\ UNCHANGED <<config, levelCall, stored, logLevel, mu, cacheMutex, status, queue, cacheData, heap,
                   started, call, fl, accepted, rejected,
                   nEmits, fmtVars>>

(***************************************************************************)
(* The flush scheduler of Start (caching enabled) and Logger.flush.        *)
(***************************************************************************)
\* the scheduler launches a flush on this tick
Launches(st) == st # statusDoing

\* case <-timer.C: a flush goroutine is launched unless one is in progress
Tick ==
    /\ ~aborted
    /\ TimerOn
    /\ IF Launches(status)
       THEN /\ NumFlushes < MaxFlushes
            /\ fl' = fl (+) SetToBag({NewFlush})
       ELSE fl' = fl
    /\ UNCHANGED <<config, levelCall, stored, logLevel, mu, cacheMutex, status, queue, cacheData, heap,
                   started, call, drain, aborted, sink, accepted, rejected,
                   nEmits, fmtVars>>

\* l.status = statusDoing
FlushBegin(r) ==
    /\ ~aborted
    /\ r.pc = "start"
    /\ status' = statusDoing
    /\ fl' = Moved(r, [r EXCEPT !.pc = "lock"])
    /\ UNCHANGED <<config, levelCall, stored, logLevel, mu, cacheMutex, queue, cacheData, heap,
                   started, call, drain, aborted, sink, accepted, rejected,
                   nEmits, fmtVars>>

\* l.cache.mutex.Lock(); cache := l.cache.data
FlushLock(r) ==
    /\ ~aborted
    /\ r.pc = "lock"
    /\ ~cacheMutex
    /\ cacheMutex' = TRUE
    /\ fl' = Moved(r, [r EXCEPT !.pc = "swap", !.cache = cacheData, !.locked = TRUE])
    /\ UNCHANGED <<config, levelCall, stored, logLevel, mu, status, queue, cacheData, heap,
                   started, call, drain, aborted, sink, accepted, rejected,
                   nEmits, fmtVars>>

\* h[0:0]: the same array and capacity, no elements
Truncated(h) == [h EXCEPT !.len = 0]

\* a flush that unlocks only when it returns
UnlocksAtReturn == FALSE

\* l.cache.mutex.Unlock() comes before the empty check and the write
UnlocksAfterSwap == TRUE

\* l.cache.data = l.cache.data[0:0]; l.cache.mutex.Unlock()
FlushSwap(r) ==
    /\ ~aborted
    /\ r.pc = "swap"
    /\ cacheData' = Truncated(cacheData)
    /\ stored' = FALSE
    /\ cacheMutex' = ~UnlocksAfterSwap
    /\ fl' = Moved(r, [r EXCEPT !.pc = "check", !.locked = ~UnlocksAfterSwap])
    /\ UNCHANGED <<config, levelCall, logLevel, mu, status, queue, heap,
                   started, call, drain, aborted, sink, accepted, rejected,
                   nEmits, fmtVars>>

\* a flush without its empty check
NeverNothingToFlush(h) == FALSE

\* if len(cache) == 0 { return nil }
NothingToFlush(h) == h.len = 0

\* the empty check: a return runs the deferred l.status = statusDone; otherwise
\* flush enters io.WriteString(l.out, strings.Join(cache, "")), its first attempt
FlushCheck(r) ==
    /\ ~aborted
    /\ r.pc = "check"
    /\ IF NothingToFlush(r.cache)
       THEN /\ status' = statusDone
            /\ fl' = Ended(r)
       ELSE /\ fl' = Moved(r, [r EXCEPT !.pc = "writing1", !.buf = Join(Elems(r.cache))])
            /\ UNCHANGED status
    /\ UNCHANGED <<config, levelCall, stored, logLevel, mu, cacheMutex, queue, cacheData, heap,
                   started, call, drain, aborted, sink, accepted, rejected,
                   nEmits, fmtVars>>

\* the retry: flush enters io.WriteString(l.out, strings.Join(cache, "")) again
FlushRetry(r) ==
    /\ ~aborted
    /\ r.pc = "write2"
    /\ fl' = Moved(r, [r EXCEPT !.pc = "writing2", !.buf = Join(Elems(r.cache))])
    /\ UNCHANGED <<config, levelCall, stored, logLevel, mu, cacheMutex, status, queue, cacheData, heap,
                   started, call, drain, aborted, sink, accepted, rejected,
                   nEmits, fmtVars>>

\* io.WriteString returns to flush; a return or a panic runs the deferred store
FlushWriteEnd(r, ok) ==
    /\ ~aborted
    /\ r.pc \in {"writing1", "writing2"}
    /\ LET to == AfterWrite(AttemptAt(r.pc), ok)
       IN  /\ sink' = IF ok THEN Append(sink, r.buf) ELSE sink
           /\ fl' = IF to = "next" THEN Ended(r) ELSE Moved(r, [r EXCEPT !.pc = to])
           /\ status' = IF to = "write2" THEN status ELSE statusDone
           /\ aborted' = (to = "panic")
    /\ UNCHANGED <<config, levelCall, stored, logLevel, mu, cacheMutex, queue, cacheData, heap,
                   started, call, drain, accepted, rejected,
                   nEmits, fmtVars>>

Next ==
    \/ \E logType \in SetLevels : SetLogLevel(logType)
    \/ Start
    \/ \E logType \in EmitLevels : \E i \in PayloadsOf(nEmits + 1) : LogCall(logType, i)
    \/ LogAppendRead
    \/ LogAppendStore
    \/ LogSend
    \/ DrainRecv
    \/ DrainRetry
    \/ \E ok \in WriteResults : DrainWriteEnd(ok)
    \/ Tick
    \/ \E r \in BagToSet(fl) : FlushBegin(r)
    \/ \E r \in BagToSet(fl) : FlushLock(r)
    \/ \E r \in BagToSet(fl) : FlushSwap(r)
    \/ \E r \in BagToSet(fl) : FlushCheck(r)
    \/ \E r \in BagToSet(fl) : FlushRetry(r)
    \/ \E r \in BagToSet(fl), ok \in WriteResults : FlushWriteEnd(r, ok)

Spec == Init /\ [][Next]_vars

(***************************************************************************)
(* The format pipeline alone: log's two statements                         *)
(*     format, data, isLog := l.logFormatFunc(logType, i)                  *)
(*     fmt.Sprintf(string(format), data...)                                *)
(* applied to one (level, payload) pair drawn from the inputs below.       *)
(***************************************************************************)
\* the ends of the fields tried: no mark, each mark, an unknown letter, a lone or
\* misplaced dash, a letter without its dash
FieldTails ==
    { <<>>, <<"-">>, <<"r">>, <<"-", "r">>, <<"-", "g">>, <<"-", "b">>, <<"-", "y">>,
      <<"-", "x">>, <<"r", "-">>, <<"x", "y">>, <<"-", "-">> }

\* the fields tried: up to MaxBodyLen plain characters, then one of the ends
Fields == { Repeat("x", n) \o t : n \in 0..MaxBodyLen, t \in FieldTails }

SeqsUpTo(S, n) == UNION { [1..k -> S] : k \in 0..n }

FmtPayloads ==
    { FieldsPayload(fs) : fs \in SeqsUpTo(Fields, MaxFields) }
      \cup { TextPayload(f) : f \in Fields } \cup { OtherPayload }

InitFmt ==
    /\ cacheUse = TRUE
    /\ queueSize = MaxQueueSize
    /\ logLevel = DEBUG
    /\ mu = Free
    /\ cacheMutex = FALSE
    /\ status = 0
    /\ queue = [made |-> FALSE, buf |-> <<>>]
    /\ cacheData = [arr |-> 1, len |-> 0, cap |-> CacheCap]
    /\ heap = <<NewArray(CacheCap)>>
    /\ started = FALSE
    /\ call = NoCall
    /\ drain = [pc |-> "off", msg |-> <<>>]
    /\ fl = EmptyBag
    /\ aborted = FALSE
    /\ sink = <<>>
    /\ accepted = <<>>
    /\ rejected = {}
    /\ stored = FALSE
    /\ nEmits = 0
    /\ levelCall = "idle"
    /\ fmtIn \in [logType : LogTypes, i : FmtPayloads]
    /\ fmtOut = NotFormatted

Format ==
    /\ ~fmtOut.done
    /\ LET r == logFormatFunc(fmtIn.logType, fmtIn.i)
       IN  fmtOut' = [done |-> TRUE, isLog |-> r[3], str |-> Sprintf(r[1], r[2])]
    /\ UNCHANGED <<config, levelCall, stored, logLevel, mu, cacheMutex, status, queue, cacheData, heap,
                   started, call, drain, fl, aborted, sink, accepted, rejected,
                   nEmits, fmtIn>>

NextFmt == Format

SpecFmt == InitFmt /\ [][NextFmt]_vars

(***************************************************************************)
(* Logger.SetLogLevel and Logger.GetLogLevel followed through their wait   *)
(* in l.mu.Lock(): the call is made, and runs once l.mu is free.           *)
(***************************************************************************)
LevelOps == {"set", "get"}

\* SetLogLevel(logType) or GetLogLevel() is called and waits in l.mu.Lock()
LevelCallBegin(op) ==
    /\ ~aborted
    /\ levelCall = "idle"
    /\ levelCall' = op
    /\ UNCHANGED <<config, stored, logLevel, mu, cacheMutex, status, queue, cacheData, heap,
                   started, call, drain, fl, aborted, sink, accepted, rejected,
                   nEmits, fmtVars>>

\* the waiting call gets l.mu, writes or reads l.logLevel, unlocks and returns
LevelCallRun(logType) ==
    /\ ~aborted
    /\ levelCall # "idle"
    /\ mu = Free
    /\ logLevel' = IF levelCall = "set" THEN logType ELSE logLevel
    /\ levelCall' = "idle"
    /\ UNCHANGED <<config, stored, mu, cacheMutex, status, queue, cacheData, heap,
                   started, call, drain, fl, aborted, sink, accepted, rejected,
                   nEmits, fmtVars>>

(***************************************************************************)
(* The logger with caching disabled and a sink whose writes succeed.  The  *)
(* goroutines run on: a send or a receive that is ready is taken, a write  *)
(* returns, and a caller waiting in l.mu.Lock() gets the lock if it is     *)
(* free again and again (sync.Mutex hands it to a starving waiter).        *)
(***************************************************************************)
InitQueue == Init /\ ~cacheUse

NextQueue ==
    \/ Start
    \/ \E logType \in EmitLevels : \E i \in PayloadsOf(nEmits + 1) : LogCall(logType, i)
    \/ LogSend
    \/ DrainRecv
    \/ DrainWriteEnd(TRUE)
    \/ \E op \in LevelOps : LevelCallBegin(op)
    \/ \E logType \in SetLevels : LevelCallRun(logType)

SpecQueue ==
    /\ InitQueue
    /\ [][NextQueue]_vars
    /\ SF_vars(Start)
    /\ WF_vars(LogSend)
    /\ WF_vars(DrainRecv)
    /\ WF_vars(DrainWriteEnd(TRUE))
    /\ SF_vars(\E logType \in SetLevels : LevelCallRun(logType))

(***************************************************************************)
(* The logger with caching enabled and a sink whose writes succeed.  The   *)
(* ticker keeps ticking and every launched flush goroutine runs on: the    *)
(* flushes at the same statement differ only at the empty check, in the    *)
(* batch they hold, and only finitely many ever hold a batch with entries, *)
(* so fairness per statement and per kind of batch is fairness per         *)
(* goroutine.                                                              *)
(***************************************************************************)
InitCache == Init /\ cacheUse

NextCache ==
    \/ Start
    \/ \E logType \in EmitLevels : \E i \in PayloadsOf(nEmits + 1) : LogCall(logType, i)
    \/ LogAppendRead
    \/ LogAppendStore
    \/ Tick
    \/ \E r \in BagToSet(fl) : FlushBegin(r)
    \/ \E r \in BagToSet(fl) : FlushLock(r)
    \/ \E r \in BagToSet(fl) : FlushSwap(r)
    \/ \E r \in BagToSet(fl) : FlushCheck(r)
    \/ \E r \in BagToSet(fl) : FlushWriteEnd(r, TRUE)

SpecCache ==
    /\ InitCache
    /\ [][NextCache]_vars
    /\ SF_vars(Start)
    /\ WF_vars(LogAppendRead)
    /\ WF_vars(LogAppendStore)
    /\ WF_vars(Tick)
    /\ WF_vars(\E r \in BagToSet(fl) : FlushBegin(r))
    /\ SF_vars(\E r \in BagToSet(fl) : FlushLock(r))
    /\ WF_vars(\E r \in BagToSet(fl) : FlushSwap(r))
    /\ WF_vars(\E r \in BagToSet(fl) : NothingToFlush(r.cache) /\ FlushCheck(r))
    /\ WF_vars(\E r \in BagToSet(fl) : ~NothingToFlush(r.cache) /\ FlushCheck(r))
    /\ WF_vars(\E r \in BagToSet(fl) : FlushWriteEnd(r, TRUE))


(***************************************************************************)
(* Properties.                                                             *)
(***************************************************************************)
IsPrefix(a, b) == Len(a) <= Len(b) /\ SubSeq(b, 1, Len(a)) = a

\* the texts of emission calls that occur in a string
Texts == {Digit(n) : n \in 1..9}
TextsIn(str) == {str[k] : k \in 1..Len(str)} \cap Texts

FlushSet == BagToSet(fl)
AtWrite(pc) == pc \in {"writing1", "writing2"}

\* goroutines inside io.WriteString(l.out, ...)
NumWriters ==
    (IF AtWrite(drain.pc) THEN 1 ELSE 0)
      + BagCardinality([r \in {x \in FlushSet : AtWrite(x.pc)} |-> fl[r]])

\* nothing is on its way to the sink: no call past the filter, nothing buffered or
\* queued, no flush alive and the drain worker waiting
Quiescent ==
    /\ ~aborted
    /\ started
    /\ call.pc = "idle"
    /\ IF cacheUse
       THEN cacheData.len = 0 /\ fl = EmptyBag
       ELSE queue.buf = <<>> /\ drain.pc = "recv"

\* C1: in CacheBatcher mode the sink writes, concatenated in write order, are the
\* accepted strings concatenated in the order they were appended: at any time a
\* prefix of them (nothing twice, nothing out of order), and all of them once
\* nothing is left to flush (nothing lost).
C1_WritesAreAcceptedInOrder ==
    cacheUse =>
        /\ IsPrefix(Join(sink), Join(accepted))
        /\ Quiescent => Join(sink) = Join(accepted)

\* the message the drain worker has taken from the queue and not yet written
InHand == IF drain.pc \in {"off", "recv"} THEN <<>> ELSE <<drain.msg>>

\* C2: in QueueWriter mode the sink receives one write per pushed record, in push
\* order: the writes done, the record being written and the records queued are,
\* in this order, exactly the records pushed; so N emissions end as N writes.
C2_QueueFifo ==
    (~cacheUse /\ ~aborted) => sink \o InHand \o queue.buf = accepted

\* C2's case: both records of two emissions were pushed while queued together and
\* are written, in push order
C2_Witness ==
    /\ ~cacheUse
    /\ Len(accepted) = 2
    /\ accepted[1] # accepted[2]
    /\ sink = accepted
    /\ queueSize >= 2

\* the level filter alone: a call is handed to the delivery core iff its level is at
\* least the threshold, and the threshold changes only while l.mu is free
FilterDecides ==
    [][/\ \A logType \in EmitLevels : \A i \in PayloadsOf(nEmits + 1) :
              LogCall(logType, i) => ((call'.pc # "idle") <=> (logType >= logLevel))
       /\ logLevel' # logLevel => mu = Free]_vars

\* no text of a call the filter returned from is in the sink
RejectedNeverWritten == rejected \cap TextsIn(Join(sink)) = {}

\* once nothing is on its way, the text of every call that passed the filter is in
\* the sink
AcceptedWritten == Quiescent => TextsIn(Join(accepted)) \subseteq TextsIn(Join(sink))

\* C3: an emission at level L under threshold T is handed to the delivery core iff
\* L >= T, T being read under the lock SetLogLevel writes it under; an emission
\* with L < T never causes sink output and an emission with L >= T does.
C3_LevelFilter ==
    /\ FilterDecides
    /\ []RejectedNeverWritten
    /\ []AcceptedWritten

\* C4: in both modes a payload whose first write attempt fails gets exactly one
\* more attempt, of the same payload; after a successful retry the writer goes on,
\* after a failed retry the process aborts and nothing is written afterwards; no
\* failed payload is skipped.
C4_RetryOnceThenAbort ==
    [][/\ \A r \in FlushSet :
            /\ (FlushWriteEnd(r, FALSE) /\ r.pc = "writing1")
                  => (~aborted' /\ BagIn([r EXCEPT !.pc = "write2"], fl'))
            /\ FlushRetry(r) => Join(Elems(r.cache)) = r.buf
            /\ (FlushWriteEnd(r, FALSE) /\ r.pc = "writing2") => aborted'
            /\ FlushWriteEnd(r, TRUE) => (~aborted' /\ fl' = Ended(r))
       /\ (DrainWriteEnd(FALSE) /\ drain.pc = "writing1")
             => (~aborted' /\ drain' = [drain EXCEPT !.pc = "write2"])
       /\ DrainRetry => (drain'.pc = "writing2" /\ drain'.msg = drain.msg)
       /\ (DrainWriteEnd(FALSE) /\ drain.pc = "writing2") => aborted'
       /\ DrainWriteEnd(TRUE) => (~aborted' /\ drain'.pc = "recv")
       /\ aborted => (sink' = sink /\ fl' = fl /\ drain' = drain)]_vars

\* C5: with the default format pipeline a call whose payload is neither a text nor
\* a sequence of fields is vetoed: nothing is appended or pushed, and no sink
\* write, not even an empty one, results.
C5_UnrecognizedPayloadVetoed ==
    /\ [][\A logType \in EmitLevels :
             LogCall(logType, OtherPayload) => UNCHANGED <<call, mu>>]_vars
    /\ [](\A k \in 1..Len(accepted) : accepted[k] # <<>>)
    /\ [](\A k \in 1..Len(sink) : sink[k] # <<>>)

\* C7: at most one goroutine is inside a sink write at any time
C7_OneWriterAtATime == NumWriters <= 1

\* C6: in QueueWriter mode after Start the queue never holds more than its
\* capacity; a call that finds it full neither returns nor drops its record while
\* it is full, and when the call leaves, its record is the queue's newest entry.
C6_BoundedQueueBlocks ==
    /\ [](queue.made => Len(queue.buf) <= queueSize)
    /\ [][/\ (call.pc = "send" /\ queue.made /\ Len(queue.buf) = queueSize)
                => (call' = call /\ mu' = mu /\ accepted' = accepted)
          /\ (call.pc = "send" /\ call' # call)
                => (/\ call'.pc = "idle"
                    /\ queue'.buf = Append(queue.buf, call.msg)
                    /\ accepted' = Append(accepted, call.msg))]_vars

\* C6's case: a call is stalled on the full queue while a record pushed earlier
\* waits in it
C6_Witness ==
    /\ call.pc = "send"
    /\ queue.made
    /\ Len(queue.buf) = queueSize
    /\ mu = ByLog

\* a flush at or past its sink write
PastCheck(pc) == pc \in {"writing1", "write2", "writing2", "panic"}

\* C8: a flush whose swapped-out buffer is empty performs no sink write; with no
\* store by an emission since the last swap the buffer a flush takes is empty, so
\* the second of two runs in a row is a no-op.
C8_EmptyFlushIsNoOp ==
    /\ [](\A r \in FlushSet : PastCheck(r.pc) => r.cache.len > 0)
    /\ [](~stored => cacheData.len = 0)
    /\ [][\A r \in FlushSet :
            /\ (FlushLock(r) /\ ~stored)
                  => BagIn([pc |-> "swap", cache |-> [cacheData EXCEPT !.len = 0],
                            buf |-> <<>>, locked |-> TRUE], fl')
            /\ (FlushCheck(r) /\ r.cache.len = 0)
                  => (sink' = sink /\ fl' = Ended(r))]_vars

\* C8's case: one flush has written the buffered record, and the next flush, with
\* no emission in between, is at its empty check with nothing swapped out
C8_Witness ==
    /\ Len(sink) = 1
    /\ sink = accepted
    /\ ~stored
    /\ \E r \in FlushSet : r.pc = "check" /\ r.cache.len = 0

\* C9: in CacheBatcher mode a flush inside a sink write holds neither the buffer
\* lock nor l.mu, and an emission call can take each of its steps while the write
\* is in progress, however long it lasts.
C9_NoLockHeldDuringWrite ==
    (cacheUse /\ ~aborted) =>
        \A r \in FlushSet : AtWrite(r.pc) =>
            /\ ~r.locked
            /\ cacheMutex => \E r2 \in FlushSet : r2.pc = "swap" /\ r2.locked
            /\ mu \in {Free, ByLog}
            /\ (mu = Free /\ nEmits < MaxEmits)
                  => ENABLED (\E logType \in EmitLevels :
                                 \E i \in PayloadsOf(nEmits + 1) : LogCall(logType, i))
            /\ call.pc = "append" => ENABLED LogAppendRead
            /\ call.pc = "store" => ENABLED LogAppendStore

\* C9's case: while a flush is inside its first sink write, an emission call has
\* appended and returned: the array the flush joined has since changed
C9_Witness ==
    /\ call.pc = "idle"
    /\ \E r \in FlushSet : r.pc = "writing1" /\ Join(Elems(r.cache)) # r.buf

\* the rendering C10 states for one field
MarkedField(f) ==
    Len(f) >= 2 /\ f[Len(f) - 1] = "-" /\ f[Len(f)] \in {"r", "g", "b", "y"}
RenderedField(f) ==
    IF MarkedField(f)
    THEN <<ESC, dataColor(f[Len(f)]), "m">> \o SubSeq(f, 1, Len(f) - 2) \o <<RESET, " | ">>
    ELSE f \o <<" | ">>
LineHead(logType) ==
    <<"[", ESC, logTypesColors[logType + 1], "m">> \o logTypeStrings[logType + 1]
      \o <<RESET, "] ">> \o formatTime \o <<" | ">>

\* C10: every field that has at least 2 characters and ends in '-' and one of
\* r, g, b, y is rendered without these two characters inside that letter's color
\* code, every other field is rendered as it is, and the line holds the fields in
\* their number and order.
C10_FieldsRendered ==
    (fmtOut.done /\ fmtIn.i.kind = "slice") =>
        /\ fmtOut.isLog
        /\ fmtOut.str = LineHead(fmtIn.logType)
                          \o Join([j \in 1..Len(fmtIn.i.sli) |-> RenderedField(fmtIn.i.sli[j])])
                          \o <<NL>>

\* C10's case: a line of a marked and an unmarked field has been rendered
C10_Witness ==
    /\ fmtOut.done
    /\ fmtIn.i = FieldsPayload(<< <<"x", "-", "y">>, <<"x">> >>)
    /\ fmtOut.str = LineHead(fmtIn.logType)
                      \o <<ESC, "43;97", "m", "x", RESET, " | ", "x", " | ", NL>>

\* a flush between its entry (l.status = statusDoing) and its exit
InFlight(pc) == pc # "start"
NumInFlight == BagCardinality([r \in {x \in FlushSet : InFlight(x.pc)} |-> fl[r]])

\* C11: in CacheBatcher mode, whatever the interleaving of ticks and flush steps, at
\* most one flush is between its entry and its exit.
C11_OneFlushInFlight == cacheUse => NumInFlight <= 1

\* C12: an emission call inside its append (from l.mu.Lock() to the store into
\* l.cache.data) and a flush inside its swap (holding the buffer lock) exclude each
\* other.
C12_AppendSwapExclusive ==
    ~(/\ call.pc \in {"append", "store"}
      /\ \E r \in FlushSet : r.pc = "swap")

\* a flush that has taken its batch (cache := l.cache.data) and not yet ended
HasBatch(pc) == pc \in {"swap", "check", "writing1", "write2", "writing2"}

\* C13: the batch a flush has taken is the flush's alone: no step changes its
\* entries, and each write attempt, the first and the retry, writes these entries
\* joined in order.
C13_BatchIsPrivate ==
    [][\A r \in FlushSet :
         /\ HasBatch(r.pc)
               => SubSeq(heap'[r.cache.arr], 1, r.cache.len)
                    = SubSeq(heap[r.cache.arr], 1, r.cache.len)
         /\ (FlushCheck(r) /\ ~NothingToFlush(r.cache))
               => BagIn([r EXCEPT !.pc = "writing1", !.buf = Join(Elems(r.cache))], fl')
         /\ FlushRetry(r)
               => BagIn([r EXCEPT !.pc = "writing2", !.buf = Join(Elems(r.cache))], fl')]_vars

\* the scheduler alone: a tick launches one flush when the status it reads is not
\* statusDoing and none when it is, and a flush is launched by nothing else
TickLaunchesOrSkips ==
    [][/\ Tick => fl' = IF status # statusDoing THEN fl (+) SetToBag({NewFlush}) ELSE fl
       /\ NumFlushes' > NumFlushes
             => (TimerOn /\ status # statusDoing /\ fl' = fl (+) SetToBag({NewFlush}))]_vars

\* while a flush is inside its sink write no flush is launched
NoLaunchDuringWrite ==
    [][(\E r \in FlushSet : AtWrite(r.pc)) => NumFlushes' <= NumFlushes]_vars

\* C14: on every tick the scheduler launches exactly one flush when the status it
\* reads is not InProgress and none when it is, a skipped tick is not made up
\* later, and so, for as long as a flush stays inside its sink write, no further
\* flush is launched.
C14_SkipIfBusy ==
    /\ TickLaunchesOrSkips
    /\ NoLaunchDuringWrite

\* the status is written by flush alone: to statusDoing at its entry, to
\* statusDone at its exit, the exit of an empty flush included
StatusWrittenByFlushOnly ==
    [][status' # status =>
          \E r \in FlushSet :
              \/ FlushBegin(r) /\ status' = statusDoing
              \/ FlushCheck(r) /\ NothingToFlush(r.cache) /\ status' = statusDone
              \/ (\E ok \in WriteResults : FlushWriteEnd(r, ok)) /\ status' = statusDone]_vars

\* C15: the status is statusInit until the first flush begins, is written only by
\* flush (statusDoing at entry, statusDone at exit, also of an empty flush) and
\* never returns to statusInit.
C15_StatusLifecycle ==
    /\ [](status \notin {statusDoing, statusDone} => status = statusInit)
    /\ StatusWrittenByFlushOnly
    /\ [][status # statusInit => status' # statusInit]_vars

\* C16: after Start exactly one delivery strategy is active.  Caching disabled: the
\* queue and its drain worker exist, no flush is launched, the status is untouched
\* and nothing is appended to the cache buffer.  Caching enabled: no queue and no
\* drain worker exist and nothing is pushed to a queue.
C16_OneStrategy ==
    started =>
        IF cacheUse
        THEN /\ ~queue.made
             /\ queue.buf = <<>>
             /\ drain.pc = "off"
             /\ call.pc # "send"
        ELSE /\ queue.made
             /\ drain.pc # "off"
             /\ fl = EmptyBag
             /\ status = 0
             /\ call.pc \notin {"append", "store"}
             /\ cacheData = [arr |-> 1, len |-> 0, cap |-> CacheCap]
             /\ heap = <<NewArray(CacheCap)>>

\* C16's case: with caching disabled two records went through the queue to the
\* sink
C16_Witness ==
    /\ started
    /\ ~cacheUse
    /\ Len(sink) = 2
    /\ sink = accepted

\* an emission call that passed the filter before Start has run returns
EarlyCallReturns == (~started /\ call.pc # "idle") ~> (call.pc = "idle")

\* the Start call returns
StartReturns == <>started

\* C17: an emission call that passes the level filter before Start has run
\* eventually returns, and the Start call eventually returns.
C17_EarlyEmissionDoesNotBlock ==
    /\ EarlyCallReturns
    /\ StartReturns

\* C18: in QueueWriter mode after Start, with a sink whose writes succeed, every
\* emission call and every SetLogLevel or GetLogLevel call eventually returns,
\* also a call that finds the queue full and a call that waits for l.mu behind it.
C18_QueueModeNoDeadlock ==
    /\ (started /\ call.pc # "idle") ~> (call.pc = "idle")
    /\ (started /\ levelCall # "idle") ~> (levelCall = "idle")

\* C18's case: an emission call is stalled on the full queue, holding l.mu, while a
\* level call waits for l.mu
C18_Witness ==
    /\ started
    /\ call.pc = "send"
    /\ Len(queue.buf) = queueSize
    /\ mu = ByLog
    /\ levelCall # "idle"

\* C19: in CacheBatcher mode after Start, with the ticker running and every sink
\* write succeeding, the text of every record appended to the cache buffer is
\* eventually in a sink write.
C19_AppendedEventuallyWritten ==
    \A n \in 1..MaxEmits :
        (started /\ Digit(n) \in TextsIn(Join(accepted)))
            ~> (Digit(n) \in TextsIn(Join(sink)))

=============================================================================
